---- MODULE Spec2Model ----
(***************************************************************************)
(* A model of the Facebook webhook auto-reply bot.                         *)
(*                                                                         *)
(* Two variants of the server exist: the multi-tenant one                  *)
(* (src/unnamed/part_000, "multi") and the single-tenant one               *)
(* (src/server.js, "single").  The variable `variant` says which of the    *)
(* two programs a behaviour is a run of.                                   *)
(*                                                                         *)
(* JavaScript values are modelled as sequences.  A string is the sequence  *)
(* of its characters (each a one-character TLA+ string); the values that   *)
(* are not strings are one-element sequences holding a word no character   *)
(* can equal: <<"undefined">>, <<"true">>, <<"false">>, <<"[]">>.          *)
(* An optional object (a field that may be missing) is <<>> or <<object>>. *)
(***************************************************************************)
EXTENDS Integers, Sequences, FiniteSets, TLC

\* ------------------------------------------------------------------ bounds

\* Log events that one run of SpecLog adds on top of its initial buffer.
MaxLogEvents == 3
\* Documents in the knowledge store of SpecSearch.
MaxDocs == 2
\* Requests one run of SpecMgmt handles.
MaxOps == 2
\* The largest value Date.now() returns (it starts at 1).
MaxClock == 2
\* Webhook POST requests one run of Spec receives.
MaxHooks == 1
\* Answers of the completion and send endpoints in one run of the pipeline.
MaxReturns == 4
\* Webhook and management requests together in one run of SpecLive.
MaxRequests == 3

\* The capacity of the log buffer.
LogCap == 100

\* ------------------------------------------------------- JavaScript values

Undefined == <<"undefined">>
JTrue == <<"true">>
JFalse == <<"false">>
JArray == <<"[]">>

NonStrings == {Undefined, JTrue, JFalse, JArray}

IsString(v) == v \notin NonStrings

\* JavaScript truthiness: undefined, false and '' are falsy; [] is truthy.
Truthy(v) == v \notin {Undefined, JFalse, <<>>}

\* a || b
Or(a, b) == IF Truthy(a) THEN a ELSE b

\* String(v), as string concatenation and String.prototype.includes coerce.
ToStr(v) ==
  IF v = Undefined THEN <<"u","n","d","e","f","i","n","e","d">>
  ELSE IF v = JTrue THEN <<"t","r","u","e">>
  ELSE IF v = JFalse THEN <<"f","a","l","s","e">>
  ELSE IF v = JArray THEN <<>>
  ELSE v

\* s.startsWith(p)
StartsWith(s, p) == Len(s) >= Len(p) /\ SubSeq(s, 1, Len(p)) = p

\* s.includes(sub)
Includes(s, sub) ==
  \E i \in 0..(Len(s) - Len(sub)) : SubSeq(s, i + 1, i + Len(sub)) = sub

\* s.slice(-4)
SliceLast4(s) == IF Len(s) <= 4 THEN s ELSE SubSeq(s, Len(s) - 3, Len(s))

\* The mask marker '***'.
Mask == <<"*","*","*">>

\* c.toLowerCase() for the characters of the model's alphabet.
LowerChar(c) ==
  CASE c = "A" -> "a" [] c = "B" -> "b" [] c = "H" -> "h" [] c = "E" -> "e"
    [] c = "L" -> "l" [] c = "P" -> "p" [] OTHER -> c

\* s.toLowerCase()
ToLowerCase(s) == [i \in 1..Len(s) |-> LowerChar(s[i])]

\* -------------------------------------------------------------- variables

VARIABLES
  variant,      \* "multi" (part_000) or "single" (server.js)
  messageLog,   \* the log buffer, most recent entry first
  logCount,     \* how many events were logged so far: the logical clock of
                \* the entries' timestamps
  ops,          \* how many requests the run has handled: what the bounds cap
  kbFiles,      \* the knowledge documents, in directory order
  searchOut,    \* the last searchKnowledge call: <<>> or <<[query, result]>>
  fs,           \* the files on disk: a set of [path, content]
  http,         \* the last request of the management API or the verification
                \* endpoint and its response: <<>> or <<[route, req, status, body]>>
  pages,        \* multi: the page records of data/pages.json, in file order
  globalConfig, \* multi: the record of data/config.json
  config,       \* single: the record of data/config.json
  now,          \* the last value Date.now() returned
  hooks,        \* the webhook POST requests and how far each one's handler is
  calls,        \* the calls made to the knowledge matcher and to the two
                \* outbound endpoints, in the order they were made
  task,         \* the management handlers that are between their load and
                \* their save: [req, loaded] each
  served        \* the management requests answered so far, in order:
                \* [req, status] each

logVars == <<messageLog, logCount>>
kbVars == <<kbFiles, searchOut, fs>>
cfgVars == <<pages, globalConfig, config, now>>
pipeVars == <<hooks, calls, task, served>>

vars == <<variant, ops, http, logVars, kbVars, cfgVars, pipeVars>>

\* ------------------------------------------------- the stores at startup

\* 'openai/gpt-5.2'
DEFAULT_MODEL == <<"openai/gpt-5.2">>

\* What loadGlobalConfig (multi) and loadConfig (single) return when
\* data/config.json does not exist.
DefaultGlobalConfig == [defaultAiModel |-> DEFAULT_MODEL, openrouterKey |-> <<>>]

DefaultConfig ==
  [verifyToken |-> <<>>, pageAccessToken |-> <<>>, openrouterKey |-> <<>>,
   aiModel |-> DEFAULT_MODEL]

\* A fresh installation: no pages.json, no config.json.
ConfigAtStart ==
  /\ pages = <<>>
  /\ globalConfig = DefaultGlobalConfig
  /\ config = DefaultConfig
  /\ now = 1

\* No webhook POST was received.
NoHooks ==
  /\ hooks = <<>>
  /\ calls = <<>>
  /\ task = <<>>
  /\ served = <<>>

\* ------------------------------------------------------------ the Event Log

LogTypes == {"VERIFY", "RECEIVED", "MESSAGE", "SENT", "ERROR", "SKIP"}

\* The data of a log entry: one record shape for all types, the fields a
\* type does not set are undefined.
NoData ==
  [msg |-> Undefined, page |-> Undefined, senderId |-> Undefined,
   text |-> Undefined, reply |-> Undefined, mode |-> Undefined,
   tokenMatch |-> Undefined, body |-> <<>>]

\* logMessage with its pop left out: the buffer grows without bound.
logMessage_NoTrim(log, n, type, data) ==
  <<[timestamp |-> n + 1, type |-> type, data |-> data]>> \o log

\* logMessage(type, data) on buffer `log` when `n` events were logged before:
\* unshift the entry, pop the last one when the length exceeds the capacity.
logMessage(log, n, type, data) ==
  LET entry == [timestamp |-> n + 1, type |-> type, data |-> data]
      unshifted == <<entry>> \o log
  IN IF Len(unshifted) > LogCap
       THEN SubSeq(unshifted, 1, Len(unshifted) - 1)
       ELSE unshifted

\* The buffer after k <= LogCap failed verification requests since process
\* start: k VERIFY entries, the latest first, none dropped yet.
LogAfterVerifies(k) ==
  [i \in 1..k |->
     [timestamp |-> k - i + 1, type |-> "VERIFY",
      data |-> [NoData EXCEPT !.tokenMatch = JFalse]]]

\* ------------------------------------------------------ SpecLog: the log

InitLog ==
  /\ variant \in {"multi", "single"}
  /\ \E k \in 0..LogCap :
       /\ messageLog = LogAfterVerifies(k)
       /\ logCount = k
  /\ ops = 0
  /\ kbFiles = <<>>
  /\ searchOut = <<>>
  /\ fs = {}
  /\ http = <<>>
  /\ ConfigAtStart
  /\ NoHooks

\* Any handler step that logs one event.
LogEvent ==
  /\ ops < MaxLogEvents
  /\ \E type \in LogTypes :
       messageLog' = logMessage(messageLog, logCount, type, NoData)
  /\ logCount' = logCount + 1
  /\ ops' = ops + 1
  /\ UNCHANGED <<variant, http, kbVars, cfgVars, pipeVars>>

\* DELETE /api/logs: messageLog.length = 0
DeleteLogs ==
  /\ messageLog' = <<>>
  /\ UNCHANGED <<variant, logCount, ops, http, kbVars, cfgVars, pipeVars>>

NextLog == LogEvent \/ DeleteLogs

SpecLog == InitLog /\ [][NextLog]_vars

\* C5: the log buffer never holds more than 100 entries and is ordered most
\* recent first; logging an event into a full buffer puts the new entry at
\* the front and drops exactly the oldest one, the other 99 keeping their
\* order.
C5_LogBounded ==
  /\ [](/\ Len(messageLog) <= LogCap
        /\ \A i \in 1..(Len(messageLog) - 1) :
             messageLog[i].timestamp > messageLog[i + 1].timestamp)
  /\ [][(logCount' = logCount + 1 /\ Len(messageLog) = LogCap) =>
          /\ Len(messageLog') = LogCap
          /\ messageLog'[1].timestamp = logCount'
          /\ \A i \in 1..(LogCap - 1) : messageLog'[i + 1] = messageLog[i]
          /\ \A i \in 1..LogCap : messageLog'[i] # messageLog[LogCap]]_vars

\* A full buffer from which the oldest entry was evicted by a newer one.
C5_Witness ==
  /\ Len(messageLog) = LogCap
  /\ logCount > LogCap
  /\ messageLog[1].timestamp = logCount
  /\ messageLog[LogCap].timestamp = logCount - LogCap + 1

\* ---------------------------------------------------- the Knowledge Matcher

Delimiter == <<"\n","\n","-","-","-","\n","\n">>

\* s.split(sep), for a one-character separator.
RECURSIVE Split(_, _)
Split(s, sep) ==
  IF \A i \in 1..Len(s) : s[i] # sep THEN <<s>>
  ELSE LET k == CHOOSE i \in 1..Len(s) :
                  s[i] = sep /\ \A j \in 1..(i - 1) : s[j] # sep
       IN <<SubSeq(s, 1, k - 1)>> \o Split(SubSeq(s, k + 1, Len(s)), sep)

\* list.join(sep)
RECURSIVE Join(_, _)
Join(list, sep) ==
  IF Len(list) = 0 THEN <<>>
  ELSE IF Len(list) = 1 THEN list[1]
  ELSE list[1] \o sep \o Join(Tail(list), sep)

\* searchKnowledge matching on the full query only: the keyword branch is lost.
searchKnowledge_FullQueryOnly(query, files) ==
  LET lowerQuery == ToLowerCase(query)
      hit(file) == Includes(ToLowerCase(file.content), lowerQuery)
      relevant == SelectSeq(files, hit)
  IN Join([i \in 1..Len(relevant) |-> relevant[i].content], Delimiter)

\* searchKnowledge(query) over the files loadKnowledgeFiles() returns.
searchKnowledge(query, files) ==
  LET lowerQuery == ToLowerCase(query)
      words == Split(lowerQuery, " ")
      hit(file) ==
        LET lowerContent == ToLowerCase(file.content)
        IN \/ Includes(lowerContent, lowerQuery)
           \/ \E w \in 1..Len(words) :
                Len(words[w]) > 3 /\ Includes(lowerContent, words[w])
      relevant == SelectSeq(files, hit)
  IN Join([i \in 1..Len(relevant) |-> relevant[i].content], Delimiter)

\* ------------------------------------------- SpecSearch: searchKnowledge

Queries ==
  { <<>>,
    <<"h","i">>,
    <<"h","e","l","p">>,
    <<"H","E","L","P">>,
    <<"h","i"," ","h","e","l","p">>,
    <<"h","i","\t","h","e","l","p">>,
    <<"h","e","l","p","\n","h","i">>,
    <<"h","e","l","p"," ">>,
    <<"h","e"," ","l","p">>,
    <<"a","b","c"," ","h","i","x">> }

Contents ==
  { <<>>,
    <<"h","e","l","p">>,
    <<"s","a","y"," ","h","i">>,
    <<"H","e","l","p"," ","A","B">>,
    <<"x","y","z">> }

DocNames == {<<"a">>, <<"b">>, <<"c">>}

\* The stores of at most n documents with distinct names, in directory order.
Stores(n) ==
  UNION { { f \in [1..k -> [name : DocNames, content : Contents]] :
              \A i, j \in 1..k : i < j => f[i].name # f[j].name }
          : k \in 0..n }

InitSearch ==
  /\ variant \in {"multi", "single"}
  /\ messageLog = <<>>
  /\ logCount = 0
  /\ ops = 0
  /\ kbFiles \in Stores(MaxDocs)
  /\ searchOut = <<>>
  /\ fs = {}
  /\ http = <<>>
  /\ ConfigAtStart
  /\ NoHooks

\* One call of searchKnowledge, as POST /api/test and the pipeline make it.
Search ==
  /\ \E query \in Queries :
       searchOut' =
         <<[query |-> query, result |-> searchKnowledge(query, kbFiles)]>>
  /\ UNCHANGED <<variant, ops, http, logVars, kbFiles, fs, cfgVars, pipeVars>>

NextSearch == Search

SpecSearch == InitSearch /\ [][NextSearch]_vars

\* The tokens of s delimited by the characters of delims: the maximal runs
\* of s that hold no delimiter.
TokensOf(s, delims) ==
  { SubSeq(s, i, j) : <<i, j>> \in
      { p \in (1..(Len(s) + 1)) \X (0..Len(s)) :
          /\ p[1] <= p[2] + 1
          /\ \A k \in p[1]..p[2] : s[k] \notin delims
          /\ (p[1] = 1 \/ s[p[1] - 1] \in delims)
          /\ (p[2] = Len(s) \/ s[p[2] + 1] \in delims) } }

\* The documents the claim says a query selects.
Selected(query, files, delims) ==
  LET q == ToLowerCase(query)
      sel(file) ==
        \/ Includes(ToLowerCase(file.content), q)
        \/ \E t \in TokensOf(q, delims) :
             Len(t) > 3 /\ Includes(ToLowerCase(file.content), t)
  IN SelectSeq(files, sel)

SearchAgrees(delims) ==
  \A i \in 1..Len(searchOut) :
    LET sel == Selected(searchOut[i].query, kbFiles, delims)
        out == searchOut[i].result
    IN /\ out = Join([k \in 1..Len(sel) |-> sel[k].content], Delimiter)
       /\ (Len(sel) = 0 => out = <<>>)
       /\ (Len(sel) = 1 => out = sel[1].content)

Whitespace == {" ", "\t", "\n"}

\* C7 as stated: search returns the documents that contain the full query
\* or a whitespace-delimited token of it longer than 3 characters, in store
\* order joined by the delimiter; '' when none does, the document verbatim
\* when exactly one does.
C7_SearchByWhitespaceTokens == SearchAgrees(Whitespace)

\* C7 as amended: the tokens are those delimited by the single space
\* character; a tab or a line break does not delimit a token.
C7_SearchBySpaceTokens == SearchAgrees({" "})

\* A search that matched a document by a keyword of the query only.
C7_Witness ==
  /\ searchOut # <<>>
  /\ searchOut[1].query = <<"h","i"," ","h","e","l","p">>
  /\ searchOut[1].result = <<"H","e","l","p"," ","A","B">>
  /\ Len(kbFiles) = 2

\* ------------------------------------------------------ the Knowledge Store

\* __dirname/data and __dirname/data/knowledge, as lists of path segments.
DATA_DIR == << <<"a","p","p">>, <<"d","a","t","a">> >>
KNOWLEDGE_DIR == DATA_DIR \o << <<"k","n","o","w","l","e","d","g","e">> >>

\* The directories that exist (created at startup, lines 19-20).
Dirs == { SubSeq(KNOWLEDGE_DIR, 1, k) : k \in 0..Len(KNOWLEDGE_DIR) }

\* The characters the class [a-zA-Z0-9-_] holds, within the model's alphabet.
SafeChars ==
  {"a","b","c","d","e","k","m","n","o","s","t","x","A","B","0","1","-","_"}

\* Resolution of '.', '..' and empty segments, as path.normalize does for an
\* absolute path.
RECURSIVE Resolve(_, _)
Resolve(done, rest) ==
  IF rest = <<>> THEN done
  ELSE LET seg == Head(rest)
       IN IF seg = <<>> \/ seg = <<".">> THEN Resolve(done, Tail(rest))
          ELSE IF seg = <<".", ".">>
            THEN Resolve(IF done = <<>> THEN done
                         ELSE SubSeq(done, 1, Len(done) - 1), Tail(rest))
          ELSE Resolve(Append(done, seg), Tail(rest))

\* path.join(dir, rel) on POSIX: '/' separates the segments.
PathJoin(dir, rel) == Resolve(dir, Split(rel, "/"))

\* name.replace(/[^a-zA-Z0-9-_]/g, '')
Sanitize(name) == SelectSeq(name, LAMBDA c : c \in SafeChars)

DotMd == <<".","m","d">>

\* fs.writeFileSync(path, content): throws when the parent directory is
\* missing or the path is a directory; creates or overwrites otherwise.
CanWrite(path) ==
  /\ path # <<>>
  /\ SubSeq(path, 1, Len(path) - 1) \in Dirs
  /\ path \notin Dirs

WriteFile(files, path, content) ==
  { f \in files : f.path # path } \cup {[path |-> path, content |-> content]}

\* POST /api/knowledge with the name used as it came.
PostKnowledgeHandler_Unsanitized(files, body) ==
  IF ~Truthy(body.name) THEN [fs |-> files, status |-> 400]
  ELSE IF ~IsString(body.name) THEN [fs |-> files, status |-> 500]
  ELSE LET filePath == PathJoin(KNOWLEDGE_DIR, body.name \o DotMd)
       IN IF ~CanWrite(filePath) THEN [fs |-> files, status |-> 500]
          ELSE [fs |-> WriteFile(files, filePath, Or(body.content, <<>>)),
                status |-> 200]

\* POST /api/knowledge: the files after the request and the response status.
\* A name that is not a string has no replace method: the handler throws.
PostKnowledgeHandler(files, body) ==
  IF ~Truthy(body.name) THEN [fs |-> files, status |-> 400]
  ELSE IF ~IsString(body.name) THEN [fs |-> files, status |-> 500]
  ELSE LET safeName == Sanitize(body.name)
           filePath == PathJoin(KNOWLEDGE_DIR, safeName \o DotMd)
       IN IF ~CanWrite(filePath) THEN [fs |-> files, status |-> 500]
          ELSE [fs |-> WriteFile(files, filePath, Or(body.content, <<>>)),
                status |-> 200]

\* DELETE /api/knowledge/:name: the decoded route parameter is joined to
\* the knowledge directory as it came; the file is removed when it exists.
DeleteKnowledgeHandler(files, name) ==
  LET filePath == PathJoin(KNOWLEDGE_DIR, name \o DotMd)
  IN [fs |-> { f \in files : f.path # filePath }, status |-> 200]

\* -------------------------------------- SpecKnowledge: the knowledge API

\* Files that lie outside the knowledge directory.
OutsideFiles ==
  { [path |-> DATA_DIR \o << <<"c","o","n","f","i","g",".","j","s","o","n">> >>,
     content |-> <<"{","}">>],
    [path |-> DATA_DIR \o << <<"n","o","t","e","s",".","m","d">> >>,
     content |-> <<"n">>],
    [path |-> << <<"a","p","p">>, <<"x",".","m","d">> >>,
     content |-> <<"s">>],
    [path |-> << <<"e","t","c",".","m","d">> >>,
     content |-> <<"e">>] }

KnowledgeNames ==
  { Undefined, JTrue, <<>>,
    <<"a","/","b",".","m","d">>,
    <<".",".","/","n","o","t","e","s">>,
    <<".",".","/",".",".","/","x">>,
    <<".",".">>,
    <<".">>,
    <<"/","e","t","c">>,
    <<".",".","\\","n","o","t","e","s">>,
    <<"o","k","-","1","_","A">>,
    <<"n","o","t","e","s">> }

KnowledgeContents == {Undefined, <<>>, <<"t","x","t">>}

\* Route parameters of the delete request, decoded: '..%2Fnotes' arrives as
\* '../notes'.
DeleteNames ==
  { <<"n","o","t","e","s">>,
    <<"o","k","-","1","_","A">>,
    <<".",".","/","n","o","t","e","s">>,
    <<".",".","/",".",".","/","x">> }

InitKnowledge ==
  /\ variant \in {"multi", "single"}
  /\ messageLog = <<>>
  /\ logCount = 0
  /\ ops = 0
  /\ kbFiles = <<>>
  /\ searchOut = <<>>
  /\ fs = OutsideFiles
  /\ http = <<>>
  /\ ConfigAtStart
  /\ NoHooks

PostKnowledge ==
  /\ \E name \in KnowledgeNames, content \in KnowledgeContents :
       LET body == [name |-> name, content |-> content]
           r == PostKnowledgeHandler(fs, body)
       IN /\ fs' = r.fs
          /\ http' = <<[route |-> "POST /api/knowledge", req |-> body,
                        status |-> r.status, body |-> <<>>]>>
  /\ UNCHANGED <<variant, ops, logVars, kbFiles, searchOut, cfgVars, pipeVars>>

DeleteKnowledge ==
  /\ \E name \in DeleteNames :
       LET r == DeleteKnowledgeHandler(fs, name)
       IN /\ fs' = r.fs
          /\ http' = <<[route |-> "DELETE /api/knowledge/:name", req |-> name,
                        status |-> r.status, body |-> <<>>]>>
  /\ UNCHANGED <<variant, ops, logVars, kbFiles, searchOut, cfgVars, pipeVars>>

NextKnowledge ==
  \/ PostKnowledge
  \/ DeleteKnowledge

SpecKnowledge == InitKnowledge /\ [][NextKnowledge]_vars

\* A file name made of characters of [A-Za-z0-9-_] followed by '.md'.
IsSafeFileName(seg) ==
  /\ Len(seg) >= 3
  /\ SubSeq(seg, Len(seg) - 2, Len(seg)) = DotMd
  /\ \A i \in 1..(Len(seg) - 3) : seg[i] \in SafeChars

DirectlyInside(path, dir) ==
  Len(path) = Len(dir) + 1 /\ SubSeq(path, 1, Len(dir)) = dir

\* C8: whatever name is submitted to the knowledge upsert, the file created
\* or overwritten lies directly inside the knowledge directory and is named
\* by characters of [A-Za-z0-9-_] followed by '.md'; no file outside the
\* knowledge directory is created, modified or removed.
C8_UpsertStaysInKnowledgeDir ==
  [][(http' # <<>> /\ http'[1].route = "POST /api/knowledge") =>
       /\ \A f \in fs' \ fs :
            /\ DirectlyInside(f.path, KNOWLEDGE_DIR)
            /\ IsSafeFileName(f.path[Len(f.path)])
       /\ \A f \in fs \ fs' : DirectlyInside(f.path, KNOWLEDGE_DIR)
       /\ Cardinality(fs' \ fs) <= 1]_vars

\* The upsert of "../notes" was accepted and wrote notes.md inside the
\* knowledge directory, the notes.md next to it being left as it was.
C8_Witness ==
  /\ http # <<>>
  /\ http[1].route = "POST /api/knowledge"
  /\ http[1].req.name = <<".",".","/","n","o","t","e","s">>
  /\ http[1].status = 200
  /\ \E f \in fs :
       /\ f.path = KNOWLEDGE_DIR \o << <<"n","o","t","e","s",".","m","d">> >>
       /\ f.content = <<"t","x","t">>
  /\ OutsideFiles \subseteq fs

\* C20 as stated: whatever name is passed to the knowledge delete, a file
\* it removes lies directly inside the knowledge directory; no file outside
\* the knowledge directory is deleted.
C20_DeleteStaysInKnowledgeDir ==
  [][(http' # <<>> /\ http'[1].route = "DELETE /api/knowledge/:name") =>
       /\ \A f \in fs \ fs' : DirectlyInside(f.path, KNOWLEDGE_DIR)
       /\ fs' \subseteq fs]_vars

\* ------------------------------------------------------ the management API

SecretFields == {"verifyToken", "pageAccessToken", "openrouterKey"}

\* The decimal digit of n, for n < 10.
Digit(n) == <<"0","1","2","3","4","5","6","7","8","9">>[n + 1]

\* 'page_' + Date.now()
PageId(t) == <<"page_", Digit(t)>>

\* pages.findIndex(p => p.id === id), 0 standing for -1.
FindIndex(ps, id) ==
  IF \E i \in 1..Len(ps) : ps[i].id = id
    THEN CHOOSE i \in 1..Len(ps) :
           ps[i].id = id /\ \A j \in 1..(i - 1) : ps[j].id # id
    ELSE 0

\* v && !v.startsWith('***'), which throws for a truthy v that is no string.
Throws(v) == Truthy(v) /\ ~IsString(v)
Unmasked(v) == Truthy(v) /\ IsString(v) /\ ~StartsWith(v, Mask)

\* 'VERIFY_TOKEN_'
VerifyTokenPrefix == <<"V","E","R","I","F","Y","_","T","O","K","E","N","_">>

\* POST /api/pages at time t, `rand` being the random suffix of a generated
\* verify token.
PostPagesHandler(ps, body, t, rand) ==
  LET newPage ==
        [id |-> PageId(t),
         name |-> Or(body.name, <<"New Page ", Digit(Len(ps) + 1)>>),
         verifyToken |-> Or(body.verifyToken, VerifyTokenPrefix \o rand),
         pageAccessToken |-> Or(body.pageAccessToken, <<>>),
         openrouterKey |-> Or(body.openrouterKey, <<>>),
         aiModel |-> Or(body.aiModel, DEFAULT_MODEL),
         knowledgeBase |-> JArray,
         enabled |-> JTrue,
         createdAt |-> <<Digit(t)>>]
  IN [pages |-> Append(ps, newPage), status |-> 200]

\* PUT /api/pages/:id that stores every truthy secret it is given.
PutPagesHandler_NoMaskCheck(ps, id, body) ==
  LET index == FindIndex(ps, id)
      set(v, old) == IF Truthy(v) THEN v ELSE old
  IN IF index = 0 THEN [pages |-> ps, status |-> 404]
     ELSE [pages |->
             [ps EXCEPT ![index] =
                [@ EXCEPT
                   !.name = set(body.name, @),
                   !.verifyToken = set(body.verifyToken, @),
                   !.pageAccessToken = set(body.pageAccessToken, @),
                   !.openrouterKey = set(body.openrouterKey, @),
                   !.aiModel = set(body.aiModel, @),
                   !.knowledgeBase = set(body.knowledgeBase, @),
                   !.enabled = IF body.enabled # Undefined
                                 THEN body.enabled ELSE @]],
           status |-> 200]

\* PUT /api/pages/:id.  A secret that is truthy and not a string makes
\* startsWith throw before savePages: the file keeps what it held.
PutPagesHandler(ps, id, body) ==
  LET index == FindIndex(ps, id)
      set(v, old) == IF Truthy(v) THEN v ELSE old
      secret(v, old) == IF Unmasked(v) THEN v ELSE old
  IN IF index = 0 THEN [pages |-> ps, status |-> 404]
     ELSE IF \E f \in SecretFields : Throws(body[f])
       THEN [pages |-> ps, status |-> 500]
     ELSE [pages |->
             [ps EXCEPT ![index] =
                [@ EXCEPT
                   !.name = set(body.name, @),
                   !.verifyToken = secret(body.verifyToken, @),
                   !.pageAccessToken = secret(body.pageAccessToken, @),
                   !.openrouterKey = secret(body.openrouterKey, @),
                   !.aiModel = set(body.aiModel, @),
                   !.knowledgeBase = set(body.knowledgeBase, @),
                   !.enabled = IF body.enabled # Undefined
                                 THEN body.enabled ELSE @]],
           status |-> 200]

\* DELETE /api/pages/:id
DeletePagesHandler(ps, id) ==
  [pages |-> SelectSeq(ps, LAMBDA p : p.id # id), status |-> 200]

\* POST /api/config of the multi-tenant server.
PostGlobalConfigHandler(cfg, body) ==
  IF Throws(body.openrouterKey) THEN [config |-> cfg, status |-> 500]
  ELSE [config |->
          [cfg EXCEPT
             !.defaultAiModel =
                IF Truthy(body.defaultAiModel) THEN body.defaultAiModel ELSE @,
             !.openrouterKey =
                IF Unmasked(body.openrouterKey) THEN body.openrouterKey ELSE @],
        status |-> 200]

\* POST /api/config of the single-tenant server: startsWith is called on
\* each of the three secrets as it came, so a missing one or one that is no
\* string throws before saveConfig; '' is a string and is stored.
PostConfigHandler(cfg, body) ==
  LET secret(v, old) == IF StartsWith(v, Mask) THEN old ELSE v
  IN IF \E f \in SecretFields : ~IsString(body[f])
       THEN [config |-> cfg, status |-> 500]
     ELSE [config |->
             [verifyToken |-> secret(body.verifyToken, cfg.verifyToken),
              pageAccessToken |->
                secret(body.pageAccessToken, cfg.pageAccessToken),
              openrouterKey |-> secret(body.openrouterKey, cfg.openrouterKey),
              aiModel |-> body.aiModel],
           status |-> 200]

\* x ? '***' + x.slice(-4) : ''
MaskSecret(v) == IF Truthy(v) THEN Mask \o SliceLast4(v) ELSE <<>>

\* GET /api/pages: the list with the three secrets of each page masked.
GetPagesHandler(ps) ==
  [i \in 1..Len(ps) |->
     [ps[i] EXCEPT
        !.verifyToken = MaskSecret(@),
        !.pageAccessToken = MaskSecret(@),
        !.openrouterKey = MaskSecret(@)]]

\* GET /api/config of the multi-tenant server.
GetGlobalConfigHandler(cfg) ==
  [defaultAiModel |-> cfg.defaultAiModel,
   openrouterKey |-> MaskSecret(cfg.openrouterKey)]

\* GET /api/config of the single-tenant server: the access token and the
\* key are masked in the loaded object, which is then sent as it is.
GetConfigHandler(cfg) ==
  [cfg EXCEPT
     !.pageAccessToken = MaskSecret(@),
     !.openrouterKey = MaskSecret(@)]

\* -------------------------------------------------- webhook verification

Subscribe == <<"subscribe">>

\* What res.sendStatus(403) sends as body.
Forbidden == <<"Forbidden">>

\* res.send(challenge): no challenge, empty body.
SendBody(v) == IF v = Undefined THEN <<>> ELSE v

\* GET /webhook answering by the token alone.
Verification_IgnoresMode(tokenMatch, query) ==
  IF tokenMatch
    THEN [status |-> 200, body |-> SendBody(query.challenge)]
    ELSE [status |-> 403, body |-> Forbidden]

\* The response of GET /webhook, given whether the token matched.
Verification(tokenMatch, query) ==
  IF query.mode = Subscribe /\ tokenMatch
    THEN [status |-> 200, body |-> SendBody(query.challenge)]
    ELSE [status |-> 403, body |-> Forbidden]

\* pages.some(p => p.verifyToken === token)
validToken(ps, token) == \E i \in 1..Len(ps) : ps[i].verifyToken = token

\* -------------------------- SpecMgmt: the management API and verification

SecretA == <<"E","A","7","x","y">>
SecretB == <<"s","k","-","9">>
\* SecretA as GET /api/pages shows it.
MaskedA == Mask \o SliceLast4(SecretA)
GeneratedToken == VerifyTokenPrefix \o <<"Q">>

NameB == <<"B">>
ModelB == <<"m","/","b">>

CreateBodies ==
  [name : {Undefined},
   verifyToken : {Undefined, SecretA},
   pageAccessToken : {Undefined, SecretA, MaskedA},
   openrouterKey : {Undefined, SecretA},
   aiModel : {Undefined}]

\* Updates: every mix of absent, new and masked secrets, alone or with the
\* other fields set, and one body whose key is not a string.
PutBodies ==
  [name : {Undefined}, verifyToken : {Undefined, SecretB, MaskedA},
   pageAccessToken : {Undefined, SecretB, MaskedA},
   openrouterKey : {Undefined, SecretB, MaskedA},
   aiModel : {Undefined}, knowledgeBase : {Undefined}, enabled : {Undefined}]
  \cup
  [name : {NameB}, verifyToken : {Undefined, SecretB, MaskedA},
   pageAccessToken : {Undefined, SecretB, MaskedA},
   openrouterKey : {Undefined, SecretB, MaskedA},
   aiModel : {ModelB}, knowledgeBase : {JArray}, enabled : {JFalse}]
  \cup
  [name : {NameB}, verifyToken : {MaskedA}, pageAccessToken : {SecretB},
   openrouterKey : {JTrue},
   aiModel : {ModelB}, knowledgeBase : {JArray}, enabled : {JFalse}]

GlobalConfigBodies ==
  [defaultAiModel : {Undefined, ModelB},
   openrouterKey : {Undefined, SecretB, MaskedA, JTrue}]

\* Single-tenant updates: the dashboard sends all four fields; three bodies
\* lack one secret.
ConfigBodies ==
  [verifyToken : {<<>>, SecretB, MaskedA},
   pageAccessToken : {<<>>, SecretB, MaskedA},
   openrouterKey : {<<>>, SecretB, MaskedA},
   aiModel : {ModelB}]
  \cup
  { [verifyToken |-> IF f = "verifyToken" THEN Undefined ELSE MaskedA,
     pageAccessToken |-> IF f = "pageAccessToken" THEN Undefined ELSE SecretB,
     openrouterKey |-> IF f = "openrouterKey" THEN Undefined ELSE MaskedA,
     aiModel |-> Undefined] : f \in SecretFields }

VerifyQueries ==
  [mode : {Subscribe, Undefined, <<"unsubscribe">>},
   token : {Undefined, <<>>, SecretA, GeneratedToken},
   challenge : {Undefined, <<"x","y","z">>}]

\* An id no page has.
UnknownId == <<"page_", "0">>

PageIds(ps) == { ps[i].id : i \in 1..Len(ps) }

Response(route, id, req, status, body) ==
  <<[route |-> route, id |-> id, req |-> req, status |-> status,
     body |-> body]>>

InitMgmt ==
  /\ variant \in {"multi", "single"}
  /\ messageLog = <<>>
  /\ logCount = 0
  /\ ops = 0
  /\ kbFiles = <<>>
  /\ searchOut = <<>>
  /\ fs = {}
  /\ http = <<>>
  /\ ConfigAtStart
  /\ NoHooks

PostPages ==
  /\ variant = "multi"
  /\ ops < MaxOps
  /\ \E body \in CreateBodies, t \in now..MaxClock :
       LET r == PostPagesHandler(pages, body, t, <<"Q">>)
       IN /\ pages' = r.pages
          /\ now' = t
          /\ http' = Response("POST /api/pages", Undefined, body, r.status, <<>>)
  /\ ops' = ops + 1
  /\ UNCHANGED <<variant, globalConfig, config, logVars, kbVars, pipeVars>>

PutPages ==
  /\ variant = "multi"
  /\ ops < MaxOps
  /\ \E id \in PageIds(pages) \cup {UnknownId} :
       \E body \in IF id = UnknownId THEN {CHOOSE b \in PutBodies : TRUE}
                   ELSE PutBodies :
         LET r == PutPagesHandler(pages, id, body)
         IN /\ pages' = r.pages
            /\ http' = Response("PUT /api/pages/:id", id, body, r.status, <<>>)
  /\ ops' = ops + 1
  /\ UNCHANGED <<variant, globalConfig, config, now, logVars, kbVars, pipeVars>>

DeletePages ==
  /\ variant = "multi"
  /\ ops < MaxOps
  /\ \E id \in PageIds(pages) \cup {UnknownId} :
       LET r == DeletePagesHandler(pages, id)
       IN /\ pages' = r.pages
          /\ http' = Response("DELETE /api/pages/:id", id, <<>>, r.status, <<>>)
  /\ ops' = ops + 1
  /\ UNCHANGED <<variant, globalConfig, config, now, logVars, kbVars, pipeVars>>

PostGlobalConfig ==
  /\ variant = "multi"
  /\ ops < MaxOps
  /\ \E body \in GlobalConfigBodies :
       LET r == PostGlobalConfigHandler(globalConfig, body)
       IN /\ globalConfig' = r.config
          /\ http' = Response("POST /api/config", Undefined, body, r.status, <<>>)
  /\ ops' = ops + 1
  /\ UNCHANGED <<variant, pages, config, now, logVars, kbVars, pipeVars>>

PostConfig ==
  /\ variant = "single"
  /\ ops < MaxOps
  /\ \E body \in ConfigBodies :
       LET r == PostConfigHandler(config, body)
       IN /\ config' = r.config
          /\ http' = Response("POST /api/config", Undefined, body, r.status, <<>>)
  /\ ops' = ops + 1
  /\ UNCHANGED <<variant, pages, globalConfig, now, logVars, kbVars, pipeVars>>

GetPages ==
  /\ variant = "multi"
  /\ ops < MaxOps
  /\ http' = Response("GET /api/pages", Undefined, <<>>, 200,
                      GetPagesHandler(pages))
  /\ ops' = ops + 1
  /\ UNCHANGED <<variant, cfgVars, logVars, kbVars, pipeVars>>

GetConfig ==
  /\ ops < MaxOps
  /\ http' = Response("GET /api/config", Undefined, <<>>, 200,
                      IF variant = "multi"
                        THEN GetGlobalConfigHandler(globalConfig)
                        ELSE GetConfigHandler(config))
  /\ ops' = ops + 1
  /\ UNCHANGED <<variant, cfgVars, logVars, kbVars, pipeVars>>

\* GET /webhook: the attempt is logged with the match outcome, then answered.
GetWebhook ==
  /\ ops < MaxOps
  /\ \E query \in VerifyQueries :
       LET tokenMatch == IF variant = "multi"
                           THEN validToken(pages, query.token)
                           ELSE query.token = config.verifyToken
           r == Verification(tokenMatch, query)
       IN /\ messageLog' =
               logMessage(messageLog, logCount, "VERIFY",
                          [NoData EXCEPT
                             !.mode = query.mode,
                             !.tokenMatch = IF tokenMatch THEN JTrue ELSE JFalse])
          /\ http' = Response("GET /webhook", Undefined, query, r.status, r.body)
  /\ logCount' = logCount + 1
  /\ ops' = ops + 1
  /\ UNCHANGED <<variant, kbVars, cfgVars, pipeVars>>

NextMgmt ==
  \/ PostPages
  \/ PutPages
  \/ DeletePages
  \/ PostGlobalConfig
  \/ PostConfig
  \/ GetPages
  \/ GetConfig
  \/ GetWebhook

SpecMgmt == InitMgmt /\ [][NextMgmt]_vars

IsMasked(v) == IsString(v) /\ StartsWith(v, Mask)

\* C1: an update whose value for a secret field begins with '***' leaves
\* the stored value of that field unchanged, in every page record and in the
\* global or single-tenant configuration, whatever else the request holds.
C1_MaskedUpdateKeepsSecret ==
  [][\A f \in SecretFields :
       /\ (/\ http' # <<>>
           /\ http'[1].route = "PUT /api/pages/:id"
           /\ IsMasked(http'[1].req[f]))
          => /\ Len(pages') = Len(pages)
             /\ \A i \in 1..Len(pages) : pages'[i][f] = pages[i][f]
       /\ (/\ http' # <<>>
           /\ http'[1].route = "POST /api/config"
           /\ variant = "multi"
           /\ f = "openrouterKey"
           /\ IsMasked(http'[1].req[f]))
          => globalConfig'[f] = globalConfig[f]
       /\ (/\ http' # <<>>
           /\ http'[1].route = "POST /api/config"
           /\ variant = "single"
           /\ IsMasked(http'[1].req[f]))
          => config'[f] = config[f]]_vars

\* A page update that was accepted, changed the verify token and carried a
\* masked access token, the stored access token being the one given at
\* creation.
C1_Witness ==
  /\ http # <<>>
  /\ http[1].route = "PUT /api/pages/:id"
  /\ http[1].status = 200
  /\ http[1].req.pageAccessToken = MaskedA
  /\ http[1].req.verifyToken = SecretB
  /\ \E i \in 1..Len(pages) :
       /\ pages[i].id = http[1].id
       /\ pages[i].verifyToken = SecretB
       /\ pages[i].pageAccessToken = SecretA

\* C6: a verification request is answered 200 with the challenge as body if
\* and only if its mode is 'subscribe' and its token equals the verify token
\* of some configured page (multi) or the configured verify token (single);
\* every other request is answered 403 with the fixed status text.
C6_VerificationIff ==
  (http # <<>> /\ http[1].route = "GET /webhook") =>
    LET q == http[1].req
        matches == IF variant = "multi"
                     THEN \E i \in 1..Len(pages) : pages[i].verifyToken = q.token
                     ELSE config.verifyToken = q.token
    IN IF q.mode = <<"subscribe">> /\ matches
         THEN /\ http[1].status = 200
              /\ http[1].body = (IF q.challenge = Undefined THEN <<>> ELSE q.challenge)
         ELSE /\ http[1].status = 403
              /\ http[1].body = <<"Forbidden">>

\* A verification that succeeded against the token of a configured page.
C6_Witness ==
  /\ http # <<>>
  /\ http[1].route = "GET /webhook"
  /\ http[1].status = 200
  /\ http[1].body = <<"x","y","z">>
  /\ variant = "multi"
  /\ Len(pages) = 1
  /\ messageLog[1].data.tokenMatch = JTrue

\* What a list or get response may show of a stored secret: nothing of an
\* empty one, else the mask marker and the last four characters, which are
\* not the whole secret.
ShowsOnlyLast4(shown, stored) ==
  IF ~Truthy(stored) THEN shown = <<>>
  ELSE /\ shown = Mask \o SliceLast4(stored)
       /\ ~Includes(shown, stored)

\* C11 as stated: the list and get responses of the management API show of
\* every stored secret (verifyToken, pageAccessToken, openrouterKey) at
\* most '***' and its last 4 characters, never the whole secret, so that
\* secrets with the same last 4 characters give the same response.
C11_SecretsMasked ==
  /\ (http # <<>> /\ http[1].route = "GET /api/pages") =>
        /\ Len(http[1].body) = Len(pages)
        /\ \A i \in 1..Len(pages), f \in SecretFields :
             ShowsOnlyLast4(http[1].body[i][f], pages[i][f])
  /\ (http # <<>> /\ http[1].route = "GET /api/config") =>
        IF variant = "multi"
          THEN ShowsOnlyLast4(http[1].body.openrouterKey, globalConfig.openrouterKey)
          ELSE \A f \in SecretFields : ShowsOnlyLast4(http[1].body[f], config[f])

\* C18 as stated: after any sequence of page creations, updates and
\* deletions no two stored page records share an id, and every record has
\* the id it was given when it was created (the one made from its time of
\* creation).
C18_IdsUniqueAndStable ==
  /\ \A i, j \in 1..Len(pages) : pages[i].id = pages[j].id => i = j
  /\ \A i \in 1..Len(pages) : pages[i].id = <<"page_">> \o pages[i].createdAt

\* C19 as stated: after any sequence of management operations no stored
\* secret (verifyToken, pageAccessToken, openrouterKey of a page, the
\* global key, the single-tenant secrets) begins with the mask marker '***'.
C19_NoMaskedSecretStored ==
  /\ \A i \in 1..Len(pages), f \in SecretFields : ~IsMasked(pages[i][f])
  /\ ~IsMasked(globalConfig.openrouterKey)
  /\ \A f \in SecretFields : ~IsMasked(config[f])

\* ---------------------------------------------------- the webhook pipeline
\*
\* A handler of POST /webhook is an async function.  Another request can be
\* handled only while it awaits a network call, so a handler is modelled by
\* what it does between two such awaits: from the request to the first
\* completion or send request, and from the answer to one request to the
\* next request or to the end.  The operators below thread a record
\* w = [log, n, calls, h]: the log buffer, the number of events logged, the
\* calls made so far and the handler's own record h, and read the stores
\* from E = [variant, pages, globalConfig, config, kbFiles, k], k being the
\* handler's index in hooks.

\* The fixed fallback reply.
Fallback == <<"Thanks for your message! We'll get back to you soon.">>

NotConfiguredMulti == <<"OpenRouter API key not configured for this page">>
NotConfiguredSingle == <<"OpenRouter API key not configured">>
NoResponse == <<"No response generated">>
TokenNotConfigured == <<"PAGE_ACCESS_TOKEN not configured">>
Placeholder == <<"YOUR_PAGE_ACCESS_TOKEN">>
\* The message of the TypeError a completion answer without choices raises.
NoChoicesError == <<"Cannot read properties of undefined (reading '0')">>

\* One call: to pages.find for the tenant of an entry ("resolve"), to
\* searchKnowledge ("search"), to generateAIResponse ("generate"), to the
\* completion endpoint ("completion"), the result generateAIResponse
\* returned ("result"), to the message-send endpoint ("send").  hook, e and
\* m say for which messaging item it was made, at how many events had been
\* logged before it; page is what a "resolve" call found: <<>> or <<page>>.
NoCall ==
  [kind |-> "", hook |-> 0, e |-> 0, m |-> 0, at |-> 0, to |-> Undefined,
   text |-> Undefined, key |-> Undefined, token |-> Undefined,
   model |-> Undefined, context |-> Undefined, response |-> Undefined,
   error |-> Undefined, page |-> <<>>]

Log(w, type, data) ==
  [w EXCEPT !.log = logMessage(w.log, w.n, type, data), !.n = w.n + 1]

Call(w, E, kind) ==
  [NoCall EXCEPT !.kind = kind, !.hook = E.k, !.e = w.h.e, !.m = w.h.m,
                 !.at = w.n]

\* res.status(200).send('OK'); acked keeps how many calls had been made
\* when the response was sent.
Acknowledge(w) ==
  [w EXCEPT !.h = [@ EXCEPT !.res = <<[status |-> 200, body |-> <<"OK">>]>>,
                            !.acked = Len(w.calls)]]

\* A handler that answers 500 when it throws.
Crash_Responds500(h) ==
  [h EXCEPT !.pc = "crashed", !.res = <<[status |-> 500, body |-> <<>>]>>]

\* An exception leaves the async handler: its promise is rejected and the
\* rest of the payload is not processed.  The response was sent before.
Crash(h) == [h EXCEPT !.pc = "crashed"]

\* pages.find(p => p.id === pageId || p.pageAccessToken?.includes(pageId)):
\* <<>> or <<page>>.  includes() of a string takes String(id); an array
\* token holds nothing; a boolean token has no includes, so the call throws.
IncludesThrows(p, pageId) ==
  p.id # pageId /\ p.pageAccessToken \in {JTrue, JFalse}

IsOwner(p, pageId) ==
  \/ p.id = pageId
  \/ /\ IsString(p.pageAccessToken)
     /\ Includes(p.pageAccessToken, ToStr(pageId))

\* find reaches a page whose token has no includes before it finds an owner.
FindThrows(ps, pageId) ==
  \E i \in 1..Len(ps) :
    /\ IncludesThrows(ps[i], pageId)
    /\ \A j \in 1..(i - 1) : ~IsOwner(ps[j], pageId)

FindPage(ps, pageId) ==
  IF \E i \in 1..Len(ps) : IsOwner(ps[i], pageId)
    THEN <<ps[CHOOSE i \in 1..Len(ps) :
                IsOwner(ps[i], pageId)
                /\ \A j \in 1..(i - 1) : ~IsOwner(ps[j], pageId)]>>
    ELSE <<>>

\* A pipeline that processes the entries of disabled pages.
PageDisabled_Never(pageConfig) == FALSE

\* if (!pageConfig.enabled)
PageDisabled(pageConfig) == ~Truthy(pageConfig.enabled)

\* A client that prefers the global key to the page's.
ResolveKey_GlobalFirst(E, pageId) ==
  IF E.variant = "single" THEN E.config.openrouterKey
  ELSE LET i == FindIndex(E.pages, pageId)
       IN Or(E.globalConfig.openrouterKey,
             IF i = 0 THEN Undefined ELSE E.pages[i].openrouterKey)

\* The API key and the model generateAIResponse resolves.
ResolveKey(E, pageId) ==
  IF E.variant = "single" THEN E.config.openrouterKey
  ELSE LET i == FindIndex(E.pages, pageId)
       IN Or(IF i = 0 THEN Undefined ELSE E.pages[i].openrouterKey,
             E.globalConfig.openrouterKey)

ResolveModel(E, pageId) ==
  IF E.variant = "single" THEN Or(E.config.aiModel, DEFAULT_MODEL)
  ELSE LET i == FindIndex(E.pages, pageId)
       IN Or(Or(IF i = 0 THEN Undefined ELSE E.pages[i].aiModel,
                E.globalConfig.defaultAiModel), DEFAULT_MODEL)

\* generateAIResponse going on to the completion endpoint with any key.
KeyMissing_Never(apiKey) == FALSE

\* if (!apiKey)
KeyMissing(apiKey) == ~Truthy(apiKey)

\* What generateAIResponse returns for an answer of the completion endpoint.
CompletionResult(outcome) ==
  IF outcome.ok
    THEN IF outcome.choices
           THEN [response |-> Or(outcome.content, NoResponse), error |-> Undefined]
           ELSE [response |-> Undefined, error |-> NoChoicesError]
    ELSE [response |-> Undefined,
          error |-> Or(outcome.apiMessage, outcome.message)]

\* The credential check of sendAutoReply: TRUE when delivery is not tried.
TokenRejected(v, pageAccessToken) ==
  IF v = "multi" THEN ~Truthy(pageAccessToken)
  ELSE \/ ~Truthy(pageAccessToken)
       \/ pageAccessToken = Placeholder
       \/ StartsWith(pageAccessToken, Mask)

\* A pipeline that puts a marker before the generated answer.
ReplyText_Prefixed(aiResult) ==
  IF Truthy(aiResult.response) THEN <<"Bot: ">> \o aiResult.response
  ELSE Fallback

\* A pipeline that tells the user what went wrong.
ReplyText_LeaksError(aiResult) ==
  IF Truthy(aiResult.response) THEN aiResult.response
  ELSE Fallback \o aiResult.error

\* The text the pipeline hands to sendAutoReply for a result that has a
\* response or an error.
ReplyText(aiResult) ==
  IF Truthy(aiResult.response) THEN aiResult.response ELSE Fallback

\* The sender id and the text of messaging item m of entry e.
ItemOf(h) == h.body.entry[1][h.e].messaging[1][h.m]

\* A pipeline that looks the access token up again when it dispatches.
PageAccessToken_Reread(h, E) ==
  IF E.variant = "single" THEN E.config.pageAccessToken
  ELSE LET i == FindIndex(E.pages, h.cfg[1].id)
       IN IF i = 0 THEN Undefined ELSE E.pages[i].pageAccessToken

\* pageConfig.pageAccessToken (config.pageAccessToken in the single-tenant
\* handler): the token of the record the handler holds since it looked the
\* entry's page up (since it started).
PageAccessToken(h, E) == h.cfg[1].pageAccessToken

RECURSIVE Loop(_, _)
RECURSIVE AfterSend(_, _)

\* The handler once generateAIResponse returned aiResult: sendAutoReply is
\* called when there is a response or an error, and the handler waits for
\* the send request unless the credential check stops it.
AfterAI(w, E, aiResult) ==
  LET w1 == [w EXCEPT
               !.calls = Append(@, [Call(w, E, "result") EXCEPT
                                      !.response = aiResult.response,
                                      !.error = aiResult.error]),
               !.h = [@ EXCEPT !.aiResult = <<aiResult>>]]
      senderId == ItemOf(w.h).sender[1].id
      token == PageAccessToken(w.h, E)
  IN IF ~Truthy(aiResult.response) /\ ~Truthy(aiResult.error)
       THEN Loop([w1 EXCEPT !.h = [@ EXCEPT !.m = @ + 1]], E)
     ELSE IF TokenRejected(E.variant, token)
       THEN AfterSend(Log(w1, "ERROR", [NoData EXCEPT !.msg = TokenNotConfigured]), E)
     ELSE [w1 EXCEPT
             !.calls = Append(@, [Call(w, E, "send") EXCEPT
                                    !.to = senderId,
                                    !.text = ReplyText(aiResult),
                                    !.token = token]),
             !.h = [@ EXCEPT !.pc = "send"]]

\* The handler once sendAutoReply returned: the error of the completion
\* call, if that is what was answered, is logged; then the next item.
AfterSend(w, E) ==
  LET aiResult == w.h.aiResult[1]
      w1 == IF Truthy(aiResult.response) THEN w
            ELSE Log(w, "ERROR", [NoData EXCEPT !.msg = aiResult.error])
  IN Loop([w1 EXCEPT !.h = [@ EXCEPT !.m = @ + 1]], E)

\* A text message: log it, search the knowledge base, generate.
TextMessage(w, E) ==
  LET item == ItemOf(w.h)
      senderId == item.sender[1].id
      userText == item.message[1].text
      cfg == w.h.cfg[1]
      w1 == Log(w, "MESSAGE",
                [NoData EXCEPT
                   !.page = IF E.variant = "multi" THEN cfg.name ELSE Undefined,
                   !.senderId = senderId, !.text = userText])
      kbContext == searchKnowledge(userText, E.kbFiles)
      apiKey == ResolveKey(E, cfg.id)
      model == ResolveModel(E, cfg.id)
      w2 == [w1 EXCEPT
               !.calls = @ \o
                 <<[Call(w, E, "search") EXCEPT
                      !.text = userText, !.context = kbContext],
                   [Call(w, E, "generate") EXCEPT
                      !.to = senderId, !.text = userText,
                      !.context = kbContext, !.key = apiKey,
                      !.model = model, !.token = cfg.pageAccessToken]>>]
  IN IF KeyMissing(apiKey)
       THEN AfterAI(w2, E,
                    [response |-> Undefined,
                     error |-> IF E.variant = "multi" THEN NotConfiguredMulti
                               ELSE NotConfiguredSingle])
       ELSE [w2 EXCEPT
               !.calls = Append(@, [Call(w, E, "completion") EXCEPT
                                      !.text = userText, !.context = kbContext,
                                      !.key = apiKey, !.model = model]),
               !.h = [@ EXCEPT !.pc = "completion"]]

\* The two for loops, from entry h.e and item h.m on; h.m = 0 stands for
\* the start of entry h.e.
Loop(w, E) ==
  LET h == w.h
      entries == h.body.entry[1]
  IN IF h.e > Len(entries) THEN [w EXCEPT !.h = [@ EXCEPT !.pc = "done"]]
     ELSE LET entry == entries[h.e]
              nextEntry(x) == Loop([x EXCEPT !.h = [@ EXCEPT !.e = @ + 1, !.m = 0]], E)
          IN IF h.m = 0
               THEN IF E.variant = "multi"
                      THEN LET pageConfig == FindPage(E.pages, entry.id)
                               wr == [w EXCEPT !.calls =
                                        Append(@, [Call(w, E, "resolve") EXCEPT
                                                     !.text = entry.id,
                                                     !.page = pageConfig])]
                           IN IF FindThrows(E.pages, entry.id)
                                THEN [wr EXCEPT !.h = Crash(h)]
                              ELSE IF pageConfig = <<>>
                                THEN nextEntry(Log(wr, "ERROR",
                                       [NoData EXCEPT !.msg =
                                          <<"Page not configured: ">> \o ToStr(entry.id)]))
                              ELSE IF PageDisabled(pageConfig[1])
                                THEN nextEntry(Log(wr, "SKIP",
                                       [NoData EXCEPT !.msg =
                                          <<"Page disabled: ">> \o ToStr(pageConfig[1].name)]))
                              ELSE IF entry.messaging = <<>>
                                THEN [wr EXCEPT !.h = Crash([h EXCEPT !.cfg = pageConfig])]
                              ELSE Loop([wr EXCEPT !.h = [@ EXCEPT !.cfg = pageConfig,
                                                                   !.m = 1]], E)
                      ELSE IF entry.messaging = <<>>
                             THEN [w EXCEPT !.h = Crash(h)]
                             ELSE Loop([w EXCEPT !.h = [@ EXCEPT !.m = 1]], E)
             ELSE IF h.m > Len(entry.messaging[1]) THEN nextEntry(w)
             ELSE LET item == entry.messaging[1][h.m]
                  IN IF item.sender = <<>> THEN [w EXCEPT !.h = Crash(h)]
                     ELSE IF item.message # <<>> /\ Truthy(item.message[1].text)
                       THEN TextMessage(w, E)
                     ELSE Loop([w EXCEPT !.h = [@ EXCEPT !.m = @ + 1]], E)

\* A handler that answers once its loops have reached their first await.
PostWebhookHandler_AckLast(w, E, body) ==
  LET h0 == [body |-> body, res |-> <<>>, acked |-> 0, pc |-> "run",
             e |-> 1, m |-> 0,
             cfg |-> IF E.variant = "single"
                       THEN <<[id |-> Undefined, name |-> Undefined,
                               pageAccessToken |-> E.config.pageAccessToken]>>
                       ELSE <<>>,
             aiResult |-> <<>>]
      w1 == Log([w EXCEPT !.h = h0], "RECEIVED", [NoData EXCEPT !.body = <<body>>])
  IN IF body.object # <<"page">>
       THEN Acknowledge([w1 EXCEPT !.h = [@ EXCEPT !.pc = "done"]])
     ELSE IF body.entry = <<>> THEN Acknowledge([w1 EXCEPT !.h = Crash(@)])
     ELSE Acknowledge(Loop(w1, E))

\* POST /webhook up to its first await: log, acknowledge, start the loops.
\* The single-tenant handler loads the configuration once, before the log.
PostWebhookHandler(w, E, body) ==
  LET h0 == [body |-> body, res |-> <<>>, acked |-> 0, pc |-> "run",
             e |-> 1, m |-> 0,
             cfg |-> IF E.variant = "single"
                       THEN <<[id |-> Undefined, name |-> Undefined,
                               pageAccessToken |-> E.config.pageAccessToken]>>
                       ELSE <<>>,
             aiResult |-> <<>>]
      w1 == Log([w EXCEPT !.h = h0], "RECEIVED", [NoData EXCEPT !.body = <<body>>])
      w2 == Acknowledge(w1)
  IN IF body.object # <<"page">> THEN [w2 EXCEPT !.h = [@ EXCEPT !.pc = "done"]]
     ELSE IF body.entry = <<>> THEN [w2 EXCEPT !.h = Crash(@)]
     ELSE Loop(w2, E)

\* ----------------------------------------------- Spec: the webhook pipeline

User1 == <<"u","1">>
User2 == <<"u","2">>
Help == <<"h","e","l","p">>

TextItem(sender, text) ==
  [sender |-> <<[id |-> sender]>>, message |-> <<[text |-> text]>>]

Entry(id, items) == [id |-> id, messaging |-> <<items>>]

Page(entries) == [object |-> <<"page">>, entry |-> <<entries>>]

\* The payloads: one text message for the page's own id; two for an id the
\* access token contains; an unknown page before a known one; another
\* object type; no entry array; an entry without messaging array; an item
\* without sender before a text message; non-text items before a text
\* message; one text message for each of two pages.
Payloads ==
  { Page(<<Entry(PageId(1), <<TextItem(User1, Help)>>)>>),
    Page(<<Entry(PageId(1), <<TextItem(User1, Help)>>),
           Entry(PageId(2), <<TextItem(User2, Help)>>)>>),
    Page(<<Entry(<<"7">>, <<TextItem(User1, Help), TextItem(User2, <<"h","i">>)>>)>>),
    Page(<<Entry(<<"9">>, <<TextItem(User1, Help)>>),
           Entry(PageId(1), <<TextItem(User2, Help)>>)>>),
    [object |-> <<"user">>, entry |-> <<>>],
    [object |-> <<"page">>, entry |-> <<>>],
    Page(<<[id |-> PageId(1), messaging |-> <<>>]>>),
    Page(<<Entry(PageId(1),
                 <<[sender |-> <<>>, message |-> <<[text |-> Help]>>],
                   TextItem(User1, Help)>>)>>),
    Page(<<Entry(PageId(1),
                 <<[sender |-> <<[id |-> User2]>>, message |-> <<>>],
                   [sender |-> <<[id |-> User2]>>, message |-> <<[text |-> Undefined]>>],
                   TextItem(User1, Help)>>)>>) }

\* The answers of the completion endpoint: a completion; an answer without
\* content; an API error with its message; an error with an empty message.
CompletionOutcomes ==
  { [ok |-> TRUE, choices |-> TRUE, content |-> <<"H","i","!">>,
     apiMessage |-> Undefined, message |-> Undefined],
    [ok |-> TRUE, choices |-> TRUE, content |-> Undefined,
     apiMessage |-> Undefined, message |-> Undefined],
    [ok |-> TRUE, choices |-> FALSE, content |-> Undefined,
     apiMessage |-> Undefined, message |-> Undefined],
    [ok |-> FALSE, choices |-> FALSE, content |-> Undefined,
     apiMessage |-> <<"Invalid API key">>,
     message |-> <<"Request failed with status code 401">>],
    [ok |-> FALSE, choices |-> FALSE, content |-> Undefined,
     apiMessage |-> Undefined, message |-> <<>>] }

\* The upstream error of a failed send request.
SendError == <<"Request failed with status code 400">>

\* The page lists a run starts from: what POST /api/pages leaves in
\* pages.json for one page, and two pages of which PUT /api/pages/:id
\* disabled the first.
InitialPages ==
  {<<>>}
  \cup
  { PostPagesHandler(<<>>,
      [name |-> Undefined, verifyToken |-> Undefined, pageAccessToken |-> t,
       openrouterKey |-> k, aiModel |-> Undefined], 1, <<"Q">>).pages :
      t \in {Undefined, SecretA, MaskedA, Placeholder}, k \in {Undefined, SecretA} }
  \cup
  { PutPagesHandler(
      PostPagesHandler(
        PostPagesHandler(<<>>,
          [name |-> Undefined, verifyToken |-> Undefined, pageAccessToken |-> SecretA,
           openrouterKey |-> SecretA, aiModel |-> Undefined], 1, <<"Q">>).pages,
        [name |-> Undefined, verifyToken |-> Undefined, pageAccessToken |-> SecretB,
         openrouterKey |-> Undefined, aiModel |-> ModelB], 2, <<"Q">>).pages,
      PageId(1),
      [name |-> Undefined, verifyToken |-> Undefined, pageAccessToken |-> Undefined,
       openrouterKey |-> Undefined, aiModel |-> Undefined,
       knowledgeBase |-> Undefined, enabled |-> JFalse]).pages }

\* The single-tenant configurations a run starts from: the default one and
\* what POST /api/config leaves.
InitialConfigs ==
  {DefaultConfig}
  \cup
  { PostConfigHandler(DefaultConfig,
      [verifyToken |-> SecretB, pageAccessToken |-> t, openrouterKey |-> k,
       aiModel |-> ModelB]).config :
      t \in {<<>>, SecretA, Placeholder}, k \in {<<>>, SecretA} }

Init ==
  /\ variant \in {"multi", "single"}
  /\ messageLog = <<>>
  /\ logCount = 0
  /\ ops = 0
  /\ kbFiles = <<[name |-> <<"a">>, content |-> <<"H","e","l","p"," ","A","B">>]>>
  /\ searchOut = <<>>
  /\ fs = {}
  /\ http = <<>>
  /\ now = 1
  /\ IF variant = "multi"
       THEN /\ pages \in InitialPages
            /\ globalConfig \in
                 {DefaultGlobalConfig,
                  PostGlobalConfigHandler(DefaultGlobalConfig,
                    [defaultAiModel |-> ModelB, openrouterKey |-> SecretB]).config}
            /\ config = DefaultConfig
       ELSE /\ pages = <<>>
            /\ globalConfig = DefaultGlobalConfig
            /\ config \in InitialConfigs
  /\ NoHooks

Env(k) ==
  [variant |-> variant, pages |-> pages, globalConfig |-> globalConfig,
   config |-> config, kbFiles |-> kbFiles, k |-> k]

World(h) == [log |-> messageLog, n |-> logCount, calls |-> calls, h |-> h]

\* The handler's record replaces or extends hooks; log and calls follow.
Commit(k, w) ==
  /\ messageLog' = w.log
  /\ logCount' = w.n
  /\ calls' = w.calls
  /\ hooks' = IF k > Len(hooks) THEN Append(hooks, w.h)
              ELSE [hooks EXCEPT ![k] = w.h]

\* A POST /webhook request arrives and its handler runs to its first await.
PostWebhookOf(payloads) ==
  /\ Len(hooks) < MaxHooks
  /\ \E body \in payloads :
       Commit(Len(hooks) + 1,
              PostWebhookHandler(World(<<>>), Env(Len(hooks) + 1), body))
  /\ UNCHANGED <<variant, ops, http, kbVars, cfgVars, task, served>>

PostWebhook == PostWebhookOf(Payloads)

\* The completion endpoint answers (or the request fails or times out) and
\* the handler runs to its next await.
CompletionReturnsOf(outcomes) ==
  /\ ops < MaxReturns
  /\ ops' = ops + 1
  /\ \E k \in 1..Len(hooks) :
       /\ hooks[k].pc = "completion"
       /\ \E outcome \in outcomes :
            Commit(k, AfterAI(World(hooks[k]), Env(k), CompletionResult(outcome)))
  /\ UNCHANGED <<variant, http, kbVars, cfgVars, task, served>>

CompletionReturns == CompletionReturnsOf(CompletionOutcomes)

\* The message-send endpoint answers or the request fails: sendAutoReply
\* logs the outcome and the handler runs to its next await.
SendReturnsOf(results) ==
  /\ ops < MaxReturns
  /\ ops' = ops + 1
  /\ \E k \in 1..Len(hooks) :
       /\ hooks[k].pc = "send"
       /\ \E delivered \in results :
            LET h == hooks[k]
                w == IF delivered
                       THEN Log(World(h), "SENT",
                                [NoData EXCEPT
                                   !.senderId = ItemOf(h).sender[1].id,
                                   !.reply = ReplyText(h.aiResult[1])])
                       ELSE Log(World(h), "ERROR", [NoData EXCEPT !.msg = SendError])
            IN Commit(k, AfterSend(w, Env(k)))
  /\ UNCHANGED <<variant, http, kbVars, cfgVars, task, served>>

SendReturns == SendReturnsOf(BOOLEAN)

Next ==
  \/ PostWebhook
  \/ CompletionReturns
  \/ SendReturns

Spec == Init /\ [][Next]_vars

\* ------------------------------------------------ claims on the pipeline

CallsOf(kind) == { calls[i] : i \in { j \in 1..Len(calls) : calls[j].kind = kind } }

SameItem(a, b) == a.hook = b.hook /\ a.e = b.e /\ a.m = b.m

\* The handler is past the messaging item call c was made for.
Finished(c) ==
  LET h == hooks[c.hook]
  IN h.pc = "done" \/ h.e > c.e \/ (h.e = c.e /\ h.m > c.m)

\* The sender id the payload gives for the item of call c.
SenderOf(c) == hooks[c.hook].body.entry[1][c.e].messaging[1][c.m].sender[1].id

LogCountOf(type, msgs) ==
  Cardinality({ i \in 1..Len(messageLog) :
                  messageLog[i].type = type /\ messageLog[i].data.msg \in msgs })

\* C2: every POST to the webhook endpoint is answered 200 "OK", whatever
\* the payload and the configuration, and nothing that happens after the
\* acknowledgment (an unresolved or disabled tenant, a failed completion or
\* send request, an exception) changes that response.
C2_AlwaysOk ==
  \A k \in 1..Len(hooks) : hooks[k].res = <<[status |-> 200, body |-> <<"OK">>]>>

\* A handler that threw after it had acknowledged.
C2_Witness ==
  \E k \in 1..Len(hooks) :
    /\ hooks[k].pc = "crashed"
    /\ hooks[k].res = <<[status |-> 200, body |-> <<"OK">>]>>
    /\ messageLog[Len(messageLog)].type = "RECEIVED"

\* The text messages for which no completion API key resolved.
NoKeyGenerates == { g \in CallsOf("generate") : ~Truthy(g.key) }

NoKeyErrors == {NotConfiguredMulti, NotConfiguredSingle}

\* No completion request, no exception, and the missing key logged as an
\* error once the item is done.
NoKeyHandled(g) ==
  /\ \A c \in CallsOf("completion") : ~SameItem(c, g)
  /\ ~(hooks[g.hook].pc = "crashed" /\ hooks[g.hook].e = g.e /\ hooks[g.hook].m = g.m)
  /\ LogCountOf("ERROR", NoKeyErrors)
       = Cardinality({ x \in NoKeyGenerates : Finished(x) })

FallbackSent(g) ==
  \E s \in CallsOf("send") : SameItem(s, g) /\ s.text = Fallback /\ s.to = g.to

\* C3 as stated: with no completion API key resolvable, a text message of
\* an enabled, resolved tenant gets the fallback reply dispatched to its
\* sender and an error logged, without completion request and without crash.
C3_FallbackDispatched ==
  \A g \in NoKeyGenerates :
    /\ NoKeyHandled(g)
    /\ Finished(g) => FallbackSent(g)

\* The page access tokens sendAutoReply goes on with.
TokenAccepted(token) ==
  IF variant = "multi" THEN Truthy(token)
  ELSE Truthy(token) /\ token # <<"YOUR_PAGE_ACCESS_TOKEN">> /\ ~IsMasked(token)

\* C3 as amended: the fallback reply is dispatched to the sender when the
\* tenant's page access token passes the dispatcher's credential check;
\* when it does not, nothing is sent and the dispatcher logs that the token
\* is not configured.  In both cases the missing key is logged as an error,
\* no completion request is issued and processing does not crash.
C3_FallbackWhenTokenAccepted ==
  \A g \in NoKeyGenerates :
    /\ NoKeyHandled(g)
    /\ Finished(g) =>
         IF TokenAccepted(g.token) THEN FallbackSent(g)
         ELSE /\ \A s \in CallsOf("send") : ~SameItem(s, g)
              /\ LogCountOf("ERROR", {TokenNotConfigured}) >= 1

\* A text message without resolvable key whose fallback went out and whose
\* error is the latest log entry.
C3_Witness ==
  \E g \in NoKeyGenerates :
    /\ Finished(g)
    /\ FallbackSent(g)
    /\ messageLog[1].type = "ERROR"
    /\ messageLog[1].data.msg \in NoKeyErrors

\* C4: when the Completion Client returns a response for an inbound text
\* message, the text handed to the message-send endpoint for that message
\* is that response, unchanged, addressed to the sender of the message.
C4_ReplyVerbatim ==
  \A r \in CallsOf("result") :
    Truthy(r.response) =>
      \A s \in CallsOf("send") :
        SameItem(s, r) => s.text = r.response /\ s.to = SenderOf(r)

\* The completion "Hi!" was sent to user 1 and its delivery logged.
C4_Witness ==
  \E r \in CallsOf("result"), s \in CallsOf("send") :
    /\ SameItem(s, r)
    /\ r.response = <<"H","i","!">>
    /\ s.text = <<"H","i","!">>
    /\ s.to = User1
    /\ Finished(r)
    /\ messageLog[1].type = "SENT"
    /\ messageLog[1].data.reply = <<"H","i","!">>

\* C9 as stated: no request goes to the message-send endpoint with a
\* credential that is absent or empty, the placeholder
\* 'YOUR_PAGE_ACCESS_TOKEN', or one beginning with '***'; each such case
\* logs an error and delivers nothing.
C9_NoSendWithBadCredential ==
  /\ \A s \in CallsOf("send") :
       /\ Truthy(s.token)
       /\ s.token # <<"YOUR_PAGE_ACCESS_TOKEN">>
       /\ ~IsMasked(s.token)
  /\ \A g \in CallsOf("generate") :
       (/\ Finished(g)
        /\ \E r \in CallsOf("result") :
             SameItem(r, g) /\ (Truthy(r.response) \/ Truthy(r.error))
        /\ \/ ~Truthy(g.token)
           \/ g.token = <<"YOUR_PAGE_ACCESS_TOKEN">>
           \/ IsMasked(g.token))
       => LogCountOf("ERROR", {TokenNotConfigured}) >= 1

\* C10: every text handed to the message-send endpoint is the response the
\* Completion Client returned for that message or the fixed fallback; the
\* error message of a failed completion call is in no dispatched text.
C10_OnlyAnswerOrFallback ==
  /\ \A s \in CallsOf("send") :
       \/ s.text = Fallback
       \/ \E r \in CallsOf("result") :
            SameItem(r, s) /\ Truthy(r.response) /\ s.text = r.response
  /\ \A r \in CallsOf("result") :
       Truthy(r.error) =>
         \A s \in CallsOf("send") :
           /\ ~Includes(s.text, r.error)
           /\ SameItem(s, r) => s.text = Fallback

\* The completion call failed with "Invalid API key": the fallback went to
\* the sender and the upstream message to the log.
C10_Witness ==
  \E r \in CallsOf("result"), s \in CallsOf("send") :
    /\ SameItem(s, r)
    /\ r.error = <<"Invalid API key">>
    /\ s.text = Fallback
    /\ Finished(r)
    /\ messageLog[1].type = "ERROR"
    /\ messageLog[1].data.msg = <<"Invalid API key">>

\* The log entry written as event number t (entries are newest first).
LogAt(t) == messageLog[logCount - t + 1]

\* The entry of the payload that call c was made for.
EntryOf(c) == hooks[c.hook].body.entry[1][c.e]

\* The tenant lookups that found no page, or a disabled one.
SkippedEntries ==
  { r \in CallsOf("resolve") :
      LET page == FindPage(pages, EntryOf(r).id)
      IN page = <<>> \/ page[1].enabled = JFalse }

EntriesOf(k) ==
  IF hooks[k].body.entry = <<>> THEN <<>> ELSE hooks[k].body.entry[1]

\* The well-formed text messages of the payload of handler k: <<e, m>> for
\* item m of entry e, when it has a sender and a text.
TextItems(k) ==
  { em \in (1..Len(EntriesOf(k))) \X (1..3) :
      LET entry == EntriesOf(k)[em[1]]
      IN /\ entry.messaging # <<>>
         /\ em[2] <= Len(entry.messaging[1])
         /\ entry.messaging[1][em[2]].sender # <<>>
         /\ entry.messaging[1][em[2]].message # <<>>
         /\ Truthy(entry.messaging[1][em[2]].message[1].text) }

\* The tenant of entry e resolves to an enabled page (single-tenant: always).
TenantServes(k, e) ==
  \/ variant = "single"
  \/ LET page == FindPage(pages, EntriesOf(k)[e].id)
     IN page # <<>> /\ page[1].enabled # JFalse

\* C13 as stated: an entry or item that lacks the expected shape is
\* skipped, so once the handler of a payload has ended, every well-formed
\* text message of the payload (of a tenant that is served) was processed,
\* also those that follow a malformed entry or item.
C13_MalformedSkipped ==
  \A k \in 1..Len(hooks) :
    (hooks[k].body.object = <<"page">> /\ hooks[k].pc \in {"done", "crashed"}) =>
      \A em \in TextItems(k) :
        TenantServes(k, em[1]) =>
          \E g \in CallsOf("generate") :
            g.hook = k /\ g.e = em[1] /\ g.m = em[2]

\* The results of generateAIResponse that are error results.
ErrorResults == { r \in CallsOf("result") : r.response = Undefined }

\* The page access token of the tenant the item of call c belongs to.
TokenOf(c) == (CHOOSE g \in CallsOf("generate") : SameItem(g, c)).token

\* C14 as stated, for the tenants whose page access token the dispatcher
\* accepts: whenever generateAIResponse returns an error result, whatever
\* its message (an empty one included), the fallback is dispatched to the
\* sender and an ERROR entry with that message is logged.
C14_ErrorGetsFallbackAndLog ==
  \A r \in ErrorResults :
    (Finished(r) /\ TokenAccepted(TokenOf(r))) =>
      /\ \E s \in CallsOf("send") :
           SameItem(s, r) /\ s.text = Fallback /\ s.to = SenderOf(r)
      /\ \E i \in 1..Len(messageLog) :
           messageLog[i].type = "ERROR" /\ messageLog[i].data.msg = r.error

\* Item a comes before item b in the payload.
Before(a, b) == a.e < b.e \/ (a.e = b.e /\ a.m < b.m)

\* The calls a handler makes follow the payload: a later call is for the
\* same or a later item, and was made no earlier in the log.
InPayloadOrder ==
  \A i, j \in 1..Len(calls) :
    (i < j /\ calls[i].hook = calls[j].hook) =>
      /\ ~Before(calls[j], calls[i])
      /\ calls[i].at <= calls[j].at

\* The requests of handler k that were sent and not yet answered.
InFlight(k) ==
  { c \in CallsOf("completion") :
      c.hook = k /\ \A r \in CallsOf("result") : ~SameItem(r, c) }
  \cup
  { c \in CallsOf("send") : c.hook = k /\ ~Finished(c) }

\* At most one request of a payload is in flight, and it is that of the
\* item the handler is at.
OneInFlight ==
  \A k \in 1..Len(hooks) :
    /\ Cardinality(InFlight(k)) <= 1
    /\ \A c \in InFlight(k) : c.e = hooks[k].e /\ c.m = hooks[k].m

\* A SENT or ERROR entry of item a was logged after its MESSAGE entry and
\* before the MESSAGE entry of item b.
ClosedBefore(a, b) ==
  \E t \in (a.at + 2)..b.at :
    \/ LogAt(t).type = "SENT" /\ LogAt(t).data.senderId = a.to
    \/ LogAt(t).type = "ERROR"

\* C15 as stated: within one webhook POST the items are handled one after
\* another in payload order; the completion and the dispatch of an item end
\* with a SENT or ERROR log entry before the MESSAGE entry of the next
\* item is written; no two requests of the payload are in flight at once;
\* the log entries of the payload are in payload order.
C15_OneItemAtATime ==
  /\ InPayloadOrder
  /\ OneInFlight
  /\ \A a, b \in CallsOf("generate") :
       (a.hook = b.hook /\ Before(a, b)) => ClosedBefore(a, b)

\* C16: the 200 acknowledgment of a webhook POST is sent before any tenant
\* resolution, knowledge lookup, completion request or dispatch of that
\* request: every call a handler makes comes after its response.
C16_AckFirst ==
  \A k \in 1..Len(hooks) :
    /\ hooks[k].res # <<>>
    /\ \A i \in 1..Len(calls) : calls[i].hook = k => i > hooks[k].acked

\* A handler that has answered 200 and waits for the completion endpoint,
\* having resolved the tenant and searched the knowledge base.
C16_Witness ==
  \E k \in 1..Len(hooks) :
    /\ hooks[k].pc = "completion"
    /\ hooks[k].res = <<[status |-> 200, body |-> <<"OK">>]>>
    /\ \E r \in CallsOf("resolve"), c \in CallsOf("search") :
         r.hook = k /\ c.hook = k

\* The stored record of the page that generate call g was made for
\* (multi-tenant).
PageOf(g) == pages[FindIndex(pages, hooks[g.hook].cfg[1].id)]

PagesRoutes ==
  {"POST /api/pages", "PUT /api/pages/:id", "DELETE /api/pages/:id"}

\* loadPages(), loadGlobalConfig() or loadConfig(): the file the handler of
\* req reads, as it is now.
LoadStore(req) ==
  IF req.route \in PagesRoutes THEN pages
  ELSE IF variant = "multi" THEN globalConfig
  ELSE config

\* What the handler of req makes of the store it loaded, and its status;
\* it saves when the status is 200.
Handle(v, req, loaded) ==
  IF req.route = "POST /api/pages"
    THEN LET r == PostPagesHandler(loaded, req.body, req.t, <<"Q">>)
         IN [store |-> r.pages, status |-> r.status]
  ELSE IF req.route = "PUT /api/pages/:id"
    THEN LET r == PutPagesHandler(loaded, req.id, req.body)
         IN [store |-> r.pages, status |-> r.status]
  ELSE IF req.route = "DELETE /api/pages/:id"
    THEN LET r == DeletePagesHandler(loaded, req.id)
         IN [store |-> r.pages, status |-> r.status]
  ELSE IF v = "multi"
    THEN LET r == PostGlobalConfigHandler(loaded, req.body)
         IN [store |-> r.config, status |-> r.status]
  ELSE LET r == PostConfigHandler(loaded, req.body)
       IN [store |-> r.config, status |-> r.status]

\* A handler that awaits its file operations: other callbacks run between
\* its load and its save.
Yields_Awaits(req) == TRUE

\* Whether the handler of req gives the thread back between its load and
\* its save: the handlers are synchronous functions, and loadPages,
\* savePages and their config counterparts use readFileSync and
\* writeFileSync.
Yields(req) == FALSE

\* A callback that has not returned holds the only thread.
Running == \E i \in 1..Len(task) : ~Yields(task[i].req)

PutBody(token, key, enabled) ==
  [name |-> Undefined, verifyToken |-> Undefined, pageAccessToken |-> token,
   openrouterKey |-> key, aiModel |-> Undefined, knowledgeBase |-> Undefined,
   enabled |-> enabled]

\* The management requests of a run: new token and key for page_1, page_1
\* disabled, page_1 deleted, a second page created, a global key set; for
\* the single-tenant server a new token with the key removed, and a new key.
LiveRequests(v, t) ==
  IF v = "multi"
    THEN { [route |-> "PUT /api/pages/:id", id |-> PageId(1), t |-> 0,
            body |-> PutBody(SecretB, SecretB, Undefined)],
           [route |-> "PUT /api/pages/:id", id |-> PageId(1), t |-> 0,
            body |-> PutBody(Undefined, Undefined, JFalse)],
           [route |-> "DELETE /api/pages/:id", id |-> PageId(1), t |-> 0,
            body |-> <<>>],
           [route |-> "POST /api/pages", id |-> Undefined, t |-> t,
            body |-> [name |-> NameB, verifyToken |-> Undefined,
                      pageAccessToken |-> SecretB, openrouterKey |-> Undefined,
                      aiModel |-> ModelB]],
           [route |-> "POST /api/config", id |-> Undefined, t |-> 0,
            body |-> [defaultAiModel |-> ModelB, openrouterKey |-> SecretB]] }
    ELSE { [route |-> "POST /api/config", id |-> Undefined, t |-> 0,
            body |-> [verifyToken |-> MaskedA, pageAccessToken |-> SecretB,
                      openrouterKey |-> <<>>, aiModel |-> ModelB]],
           [route |-> "POST /api/config", id |-> Undefined, t |-> 0,
            body |-> [verifyToken |-> MaskedA, pageAccessToken |-> MaskedA,
                      openrouterKey |-> SecretB, aiModel |-> DEFAULT_MODEL]] }

\* The stores a run starts from: one enabled page with its own token and
\* key and no global key; a single-tenant configuration with token and key.
LivePages ==
  PostPagesHandler(<<>>,
    [name |-> Undefined, verifyToken |-> Undefined, pageAccessToken |-> SecretA,
     openrouterKey |-> SecretA, aiModel |-> Undefined], 1, <<"Q">>).pages

LiveConfig ==
  PostConfigHandler(DefaultConfig,
    [verifyToken |-> SecretB, pageAccessToken |-> SecretA,
     openrouterKey |-> SecretA, aiModel |-> ModelB]).config

\* Two text messages in one entry of page_1; one entry of page_1 and one of
\* an id that the first access token contains.
LivePayloads ==
  { Page(<<Entry(PageId(1), <<TextItem(User1, Help), TextItem(User2, <<"h","i">>)>>)>>),
    Page(<<Entry(PageId(1), <<TextItem(User1, Help)>>),
           Entry(<<"7">>, <<TextItem(User2, Help)>>)>>) }

\* A completion, and an API error.
LiveOutcomes ==
  { [ok |-> TRUE, choices |-> TRUE, content |-> <<"H","i","!">>,
     apiMessage |-> Undefined, message |-> Undefined],
    [ok |-> FALSE, choices |-> FALSE, content |-> Undefined,
     apiMessage |-> <<"Invalid API key">>,
     message |-> <<"Request failed with status code 401">>] }

\* The send request succeeds.
LiveDeliveries == {TRUE}

InitLive ==
  /\ variant \in {"multi", "single"}
  /\ messageLog = <<>>
  /\ logCount = 0
  /\ ops = 0
  /\ kbFiles = <<[name |-> <<"a">>, content |-> <<"H","e","l","p"," ","A","B">>]>>
  /\ searchOut = <<>>
  /\ fs = {}
  /\ http = <<>>
  /\ now = 1
  /\ pages = IF variant = "multi" THEN LivePages ELSE <<>>
  /\ globalConfig = DefaultGlobalConfig
  /\ config = IF variant = "multi" THEN DefaultConfig ELSE LiveConfig
  /\ NoHooks

\* A management request arrives and its handler loads its store.  A create
\* reads the clock, which has advanced.
ManagementLoads ==
  /\ ~Running
  /\ Len(served) + Len(task) < MaxOps
  /\ Len(hooks) + Len(served) + Len(task) < MaxRequests
  /\ \E req \in LiveRequests(variant, now + 1) :
       /\ req.route = "POST /api/pages" => now < MaxClock
       /\ now' = IF req.route = "POST /api/pages" THEN req.t ELSE now
       /\ task' = Append(task, [req |-> req, loaded |-> LoadStore(req)])
  /\ UNCHANGED <<variant, ops, http, pages, globalConfig, config, logVars,
                 kbVars, hooks, calls, served>>

\* A handler modifies what it loaded, saves it and answers.
ManagementSaves ==
  /\ \E i \in 1..Len(task) :
       LET req == task[i].req
           r == Handle(variant, req, task[i].loaded)
           saved == r.status = 200
       IN /\ pages' = IF saved /\ req.route \in PagesRoutes THEN r.store
                      ELSE pages
          /\ globalConfig' =
               IF saved /\ req.route \notin PagesRoutes /\ variant = "multi"
                 THEN r.store ELSE globalConfig
          /\ config' =
               IF saved /\ req.route \notin PagesRoutes /\ variant = "single"
                 THEN r.store ELSE config
          /\ http' = Response(req.route, req.id, req.body, r.status, <<>>)
          /\ served' = Append(served, [req |-> req, status |-> r.status])
          /\ task' = SubSeq(task, 1, i - 1) \o SubSeq(task, i + 1, Len(task))
  /\ UNCHANGED <<variant, ops, now, logVars, kbVars, hooks, calls>>

WebhookArrives ==
  /\ ~Running
  /\ Len(hooks) + Len(served) + Len(task) < MaxRequests
  /\ PostWebhookOf(LivePayloads)

CompletionAnswers == ~Running /\ CompletionReturnsOf(LiveOutcomes)

SendAnswers == ~Running /\ SendReturnsOf(LiveDeliveries)

NextLive ==
  \/ ManagementLoads
  \/ ManagementSaves
  \/ WebhookArrives
  \/ CompletionAnswers
  \/ SendAnswers

SpecLive == InitLive /\ [][NextLive]_vars

\* ------------------------------------------------------ claims on SpecLive

\* The three stores as one record.
Stores3(ps, gc, cfg) == [pages |-> ps, globalConfig |-> gc, config |-> cfg]

\* The stores after the first n answered requests were applied one after
\* the other, each to what the one before left.
RECURSIVE Replay(_)
Replay(n) ==
  IF n = 0
    THEN Stores3(IF variant = "multi" THEN LivePages ELSE <<>>,
                 DefaultGlobalConfig,
                 IF variant = "multi" THEN DefaultConfig ELSE LiveConfig)
    ELSE LET before == Replay(n - 1)
             req == served[n].req
             part == IF req.route \in PagesRoutes THEN "pages"
                     ELSE IF variant = "multi" THEN "globalConfig"
                     ELSE "config"
             r == Handle(variant, req, before[part])
         IN IF r.status = 200 THEN [before EXCEPT ![part] = r.store]
            ELSE before

NoUpdateLost == Stores3(pages, globalConfig, config) = Replay(Len(served))

\* C21: a management handler's load-modify-save is not interleaved with any
\* other handler or pipeline step (the step after a load is that handler's
\* save), and the stores always hold exactly what the answered requests make
\* of the initial stores when applied one after the other: no accepted
\* create, update or delete is lost or overwritten with stale data.
C21_LoadModifySaveAtomic ==
  /\ [](NoUpdateLost /\ Len(task) <= 1)
  /\ [][task # <<>> => task' = <<>> /\ Len(served') = Len(served) + 1]_vars

\* Two accepted requests on the page collection were answered, and a webhook
\* handler that waits for the completion endpoint holds a page record the
\* collection no longer has.
C21_Witness ==
  /\ Len(served) = 2
  /\ \A i \in 1..2 : served[i].status = 200 /\ served[i].req.route \in PagesRoutes
  /\ served[1].req # served[2].req
  /\ \E k \in 1..Len(hooks) :
       /\ hooks[k].pc = "completion"
       /\ hooks[k].cfg # <<>>
       /\ \A i \in 1..Len(pages) : pages[i] # hooks[k].cfg[1]

\* The tenant lookup of the entry that call c of the calls cs belongs to.
ResolveOf(cs, c) ==
  cs[CHOOSE j \in 1..Len(cs) :
       cs[j].kind = "resolve" /\ cs[j].hook = c.hook /\ cs[j].e = c.e]

\* The key and the model the stores give page pageId now.
KeyNow(pageId) ==
  IF variant = "single" THEN config.openrouterKey
  ELSE LET i == FindIndex(pages, pageId)
       IN IF i # 0 /\ Truthy(pages[i].openrouterKey)
            THEN pages[i].openrouterKey
          ELSE globalConfig.openrouterKey

ModelNow(pageId) ==
  IF variant = "single"
    THEN IF Truthy(config.aiModel) THEN config.aiModel ELSE DEFAULT_MODEL
  ELSE LET i == FindIndex(pages, pageId)
       IN IF i # 0 /\ Truthy(pages[i].aiModel) THEN pages[i].aiModel
          ELSE IF Truthy(globalConfig.defaultAiModel)
            THEN globalConfig.defaultAiModel
          ELSE DEFAULT_MODEL

\* Every reply goes out with the access token of the page record found when
\* its entry was resolved (single-tenant: of the record the handler holds),
\* and that record was enabled.
SendsWithResolvedToken ==
  \A s \in CallsOf("send") :
    IF variant = "single"
      THEN s.token = hooks[s.hook].cfg[1].pageAccessToken
      ELSE LET r == ResolveOf(calls, s)
           IN /\ r.page # <<>>
              /\ Truthy(r.page[1].enabled)
              /\ s.token = r.page[1].pageAccessToken

\* Once a handler is through its payload, every text message of an entry
\* that resolved to an enabled page was handed to the completion client.
ResolvedEntriesHandled ==
  \A k \in 1..Len(hooks) :
    hooks[k].pc = "done" =>
      \A em \in TextItems(k) :
        LET at == [NoCall EXCEPT !.hook = k, !.e = em[1], !.m = em[2]]
        IN (variant = "single"
            \/ (ResolveOf(calls, at).page # <<>>
                /\ Truthy(ResolveOf(calls, at).page[1].enabled)))
           => \E g \in CallsOf("generate") : SameItem(g, at)

\* The record a handler holds is the one the store had when the entry was
\* resolved (single-tenant: when the request arrived), and no later step
\* changes it while the handler is in that entry.
SnapshotKept ==
  /\ \A k \in 1..Len(hooks) :
       (variant = "single" \/ (hooks'[k].e = hooks[k].e /\ hooks[k].m > 0))
         => hooks'[k].cfg = hooks[k].cfg
  /\ \A k \in (Len(hooks) + 1)..Len(hooks') :
       variant = "single" =>
         hooks'[k].cfg[1].pageAccessToken = config.pageAccessToken
  /\ \A i \in (Len(calls) + 1)..Len(calls') :
       calls'[i].kind = "resolve" =>
         calls'[i].page = FindPage(pages, calls'[i].text)

\* The key and the model of a message are those of the stores at the step
\* that hands the message to the completion client.
KeyAndModelReread ==
  \A i \in (Len(calls) + 1)..Len(calls') :
    calls'[i].kind = "generate" =>
      LET id == IF variant = "single" THEN Undefined
                ELSE ResolveOf(calls', calls'[i]).page[1].id
      IN /\ calls'[i].key = KeyNow(id)
         /\ calls'[i].model = ModelNow(id)

\* C22: the pipeline reads an entry's page configuration once, when the
\* entry is resolved, and uses that snapshot (enabled flag and access token)
\* for every messaging item of the entry: a reply is dispatched only with the
\* token the page had at resolution time; an update, disable or delete of the
\* page that lands while a completion call is in flight does not change the
\* handling of the remaining items; the completion key and model are read
\* again from the stores for every message.
C22_SnapshotPerEntry ==
  /\ [](SendsWithResolvedToken /\ ResolvedEntriesHandled)
  /\ [][SnapshotKept /\ KeyAndModelReread]_vars

\* The second message of an entry was answered with the token its page had
\* when the entry was resolved and with the key an update stored while the
\* first message was in flight; the store holds the new token.
C22_Witness ==
  \E s \in CallsOf("send") :
    \E g1 \in CallsOf("generate") :
      \E g2 \in CallsOf("generate") :
        /\ variant = "multi"
        /\ g1.hook = s.hook /\ g1.e = s.e /\ g1.m = 1
        /\ SameItem(g2, s) /\ s.m = 2
        /\ g1.key = SecretA /\ g2.key = SecretB
        /\ s.token = SecretA
        /\ pages # <<>>
        /\ pages[1].pageAccessToken = SecretB
====
